---- MODULE Spec2Model ----
(***************************************************************************)
(* A model of antlion's Sandbox (src/lib.rs): a throw-away Cargo project   *)
(* made by Sandbox::new, extended by Sandbox::deps and consumed by         *)
(* Sandbox::eval.  The file system, the subprocesses (mkdir, cargo) and    *)
(* the synthesized program are modelled by their effect on the paths the   *)
(* code names; every fallible call has each of its outcomes.               *)
(*                                                                         *)
(* Uuid::new_v4 is modelled by its contract: an identifier that was not    *)
(* generated before (a collision of two random 122-bit values is outside   *)
(* the model).                                                             *)
(***************************************************************************)
EXTENDS Integers, Sequences, FiniteSets, TLC

\* ------------------------------------------------------------------ bounds
NumThreads == 2
NumSandboxes == 2
MaxDeps == 3

Threads == 1..NumThreads
Sandboxes == 1..NumSandboxes
MainThread == CHOOSE t \in Threads : \A r \in Threads : t <= r
FirstSandbox == CHOOSE s \in Sandboxes : \A r \in Sandboxes : s <= r
\* the identifiers Uuid::new_v4 can return
UuidNames == <<"u1", "u2", "u3", "u4">>
Uuids == {UuidNames[k] : k \in 1..NumSandboxes}
\* the names a caller passes to deps
DepNames == {"A", "B", "C"}
\* the result types T a caller asks eval for
Types == {"u32", "String"}
\* std::io::ErrorKind of a failed spawn / read / write / remove
IoKinds == {"NotFound", "PermissionDenied"}

Range(f) == {f[x] : x \in DOMAIN f}

\* ------------------------------------------------------------------- paths
\* A path is the sequence of its components.
OUT_DIR == <<"OUT_DIR">>
Join(p, rel) == p \o rel

\* as UuidDir, had the identifier not been pushed on the path
UuidDirShared(u) == OUT_DIR

\* lib.rs:45-46  root_dir = PathBuf::from(out_dir); root_dir.push(uuid)
UuidDir(u) == Join(OUT_DIR, <<u>>)
\* lib.rs:54  root_dir.push("sandbox")
PushSandbox(dir) == Join(dir, <<"sandbox">>)

Manifest(root) == Join(root, <<"Cargo.toml">>)
SrcDir(root) == Join(root, <<"src">>)
\* as MainRs, had eval written its program over the manifest
MainRsOverManifest(root) == Join(root, <<"Cargo.toml">>)

MainRs(root) == Join(root, <<"src", "main.rs">>)
OutputFile(root) == Join(root, <<"output">>)

Under(root) == {root, Manifest(root), SrcDir(root), MainRs(root), OutputFile(root)}
AllPaths == UNION {{UuidDir(u)} \cup Under(PushSandbox(UuidDir(u))) : u \in Uuids}

\* ----------------------------------------------------------- file contents
\* A node of the file system: absent, a directory, or a file with its data.
Absent == [kind |-> "absent", deps |-> {}, text |-> <<>>]
Dir == [kind |-> "dir", deps |-> {}, text |-> <<>>]
\* Cargo.toml, by the set of dependencies it lists
ManifestFile(ds) == [kind |-> "file", deps |-> ds, text |-> <<>>]
TextFile(t) == [kind |-> "file", deps |-> {}, text |-> t]

Exists(f, p) == f[p].kind # "absent"
IsDir(f, p) == f[p].kind = "dir"
IsFile(f, p) == f[p].kind = "file"

\* the src/main.rs that `cargo new` writes
Placeholder == <<"fn main() { println!(\"Hello, world!\"); }">>

\* -------------------------------------------------------- values and text
\* A text is a sequence of characters; a value is an integer or a string.
IntVal(n) == [t |-> "int", n |-> n, s |-> <<>>]
StrVal(s) == [t |-> "str", n |-> 0, s |-> s]
NoVal == [t |-> "none", n |-> 0, s |-> <<>>]

Digits == <<"0", "1", "2", "3", "4", "5", "6", "7", "8", "9">>
IsDigit(c) == c \in Range(Digits)
DigitVal(c) == CHOOSE d \in 0..9 : Digits[d + 1] = c

RECURSIVE NatToString(_)
NatToString(n) ==
    IF n < 10 THEN <<Digits[n + 1]>>
    ELSE NatToString(n \div 10) \o <<Digits[(n % 10) + 1]>>

\* as to_string, had the text been made with {:?}: a string comes out quoted
to_string_debug(v) ==
    IF v.t = "int"
    THEN IF v.n < 0 THEN <<"-">> \o NatToString(-v.n) ELSE NatToString(v.n)
    ELSE <<"\"">> \o v.s \o <<"\"">>

\* ToString::to_string of the value of the expression (lib.rs:86)
to_string(v) ==
    IF v.t = "int"
    THEN IF v.n < 0 THEN <<"-">> \o NatToString(-v.n) ELSE NatToString(v.n)
    ELSE v.s

RECURSIVE DigitsToNat(_)
DigitsToNat(ds) ==
    IF ds = <<>> THEN 0
    ELSE 10 * DigitsToNat(SubSeq(ds, 1, Len(ds) - 1)) + DigitVal(ds[Len(ds)])

\* u32::MAX, by its decimal digits
U32MaxDigits == <<"4", "2", "9", "4", "9", "6", "7", "2", "9", "5">>

RECURSIVE StripZeros(_)
StripZeros(ds) ==
    IF Len(ds) > 1 /\ ds[1] = "0" THEN StripZeros(Tail(ds)) ELSE ds

\* a <= b for two digit sequences of the same length
RECURSIVE DigitsLeq(_, _)
DigitsLeq(a, b) ==
    IF a = <<>> THEN TRUE
    ELSE IF DigitVal(a[1]) # DigitVal(b[1]) THEN DigitVal(a[1]) < DigitVal(b[1])
    ELSE DigitsLeq(Tail(a), Tail(b))

\* the number the digits denote fits in 32 bits
FitsU32(ds) ==
    LET d == StripZeros(ds)
    IN  \/ Len(d) < Len(U32MaxDigits)
        \/ Len(d) = Len(U32MaxDigits) /\ DigitsLeq(d, U32MaxDigits)

\* <u32 as FromStr>::from_str: an optional "+", then one or more digits, in range
ParseU32(text) ==
    LET body == IF text # <<>> /\ text[1] = "+" THEN Tail(text) ELSE text
    IN  IF body # <<>> /\ (\A k \in 1..Len(body) : IsDigit(body[k]))
           /\ FitsU32(body)
        THEN [ok |-> TRUE, v |-> IntVal(DigitsToNat(body))]
        ELSE [ok |-> FALSE, v |-> NoVal]

\* as ParseErrorKind, had the parse failure been given the kind of a missing file
ParseErrorKindNotFound == "NotFound"

\* lib.rs:98  .or(Err(io::ErrorKind::Other)): the kind of a parse failure
ParseErrorKind == "Other"

\* str::parse::<T> (lib.rs:97); <String as FromStr>::from_str never fails
Parse(T, text) ==
    IF T = "u32" THEN ParseU32(text) ELSE [ok |-> TRUE, v |-> StrVal(text)]

\* ------------------------------------------------------------ expressions
\* The expressions a caller hands to eval, each with what evaluating it does:
\* it does not compile, it panics, or it yields a value.
Exprs ==
    { [src |-> "2 + 2", result |-> "value", v |-> IntVal(2 + 2)],
      [src |-> "7 - 8", result |-> "value", v |-> IntVal(7 - 8)],
      [src |-> "\"ab\"", result |-> "value", v |-> StrVal(<<"a", "b">>)],
      [src |-> "None::<u32>.unwrap()", result |-> "panic", v |-> NoVal],
      [src |-> "2 +", result |-> "compile_error", v |-> NoVal] }
NoExpr == [src |-> "", result |-> "none", v |-> NoVal]

\* lib.rs:82-90  the program text quote! builds around #expr
Wrapper(e) ==
    << "use std::io::prelude::*; fn main() -> std::io::Result<()> {",
       "let mut file = std::fs::File::create(\"output\")?;",
       "let output = {", e.src, "}.to_string();",
       "file.write_all(output.as_bytes())?; Ok(()) }" >>

\* the expression a program text evaluates, if it is a wrapper
IsWrapper(text) == \E e \in Exprs : text = Wrapper(e)
ExprOf(text) == CHOOSE e \in Exprs : text = Wrapper(e)

\* the sequences of at most MaxDeps names
DepLists == UNION {[1..n -> DepNames] : n \in 0..MaxDeps}

\* the inputs of the threads that work at the same time
SomeDepLists == {ds \in DepLists : Len(ds) <= 1 /\ \A k \in 1..Len(ds) : ds[k] = "A"}
SomeExprs == {e \in Exprs : e.src \in {"2 + 2", "None::<u32>.unwrap()"}}
SomeTypes == {"u32"}

\* proper prefixes of a text (what a failed write_all may leave behind)
Prefixes(text) == {SubSeq(text, 1, n) : n \in 0..(Len(text) - 1)}

\* ------------------------------------------------------- outcomes of calls
\* Command::output(): Err when the process could not be spawned, else Ok with
\* the exit status, whatever it is.
Ok == [res |-> "ok", kind |-> "none"]
ExitFail == [res |-> "exit_fail", kind |-> "none"]
SpawnErr(k) == [res |-> "spawn_err", kind |-> k]
IoErr(k) == [res |-> "io_err", kind |-> k]

\* a spawn with current_dir(cwd) fails with NotFound when cwd is no directory
SpawnOutcomes(f, cwd) ==
    IF IsDir(f, cwd)
    THEN {Ok, ExitFail} \cup {SpawnErr(k) : k \in IoKinds}
    ELSE {SpawnErr("NotFound")}

\* a call on a path that exists: it succeeds, or fails for another cause than
\* the path being missing
FsOutcomes == {Ok} \cup {IoErr(k) : k \in IoKinds \ {"NotFound"}}

\* ------------------------------------------------------------------ state
VARIABLES
    fs,        \* the file system: path -> node
    used,      \* the identifiers Uuid::new_v4 has returned
    val,       \* per Sandbox value: none, constructing, live, moved, dropped, failed
    root_dir,  \* per Sandbox value: its root_dir field (lib.rs:36)
    lock,      \* per Sandbox value: the thread holding its Mutex, or 0 (lib.rs:35)
    pc,        \* per thread: where it is in new / deps / eval
    sb,        \* per thread: the Sandbox value of its call (self)
    deps,      \* per thread: the argument of deps
    i,         \* per thread: the position of the for loop of deps
    expr,      \* per thread: the argument of eval
    ty,        \* per thread: the type parameter T of eval
    output,    \* per thread: the local `output` of eval (lib.rs:96)
    trace,     \* per thread: the calls its operation made, with their outcomes
    ret        \* per thread: what its last operation returned

vars == <<fs, used, val, root_dir, lock, pc, sb, deps, i, expr, ty, output, trace, ret>>

NoRet == [op |-> "none", status |-> "none", kind |-> "none", at |-> "none", v |-> NoVal]
RetOk(op, v) == [op |-> op, status |-> "Ok", kind |-> "none", at |-> "none", v |-> v]
RetErr(op, k, at) == [op |-> op, status |-> "Err", kind |-> k, at |-> at, v |-> NoVal]

\* one call of an operation: what was called, on which path, and how it ended
Call(cmd, arg, path, o) == [cmd |-> cmd, arg |-> arg, path |-> path, res |-> o.res]

Init ==
    /\ fs = [p \in AllPaths |-> Absent]
    /\ used = {}
    /\ val = [s \in Sandboxes |-> "none"]
    /\ root_dir = [s \in Sandboxes |-> <<>>]
    /\ lock = [s \in Sandboxes |-> 0]
    /\ pc = [t \in Threads |-> "idle"]
    /\ sb = [t \in Threads |-> 0]
    /\ deps = [t \in Threads |-> <<>>]
    /\ i = [t \in Threads |-> 0]
    /\ expr = [t \in Threads |-> NoExpr]
    /\ ty = [t \in Threads |-> "none"]
    /\ output = [t \in Threads |-> NoVal]
    /\ trace = [t \in Threads |-> <<>>]
    /\ ret = [t \in Threads |-> NoRet]

\* a thread starts an operation: the locals of its previous one are gone
Enter(t, s, label) ==
    /\ pc' = [pc EXCEPT ![t] = label]
    /\ sb' = [sb EXCEPT ![t] = s]
    /\ i' = [i EXCEPT ![t] = 0]
    /\ output' = [output EXCEPT ![t] = NoVal]
    /\ ret' = [ret EXCEPT ![t] = NoRet]

\* an operation returns r to its caller
Return(t, r) ==
    /\ pc' = [pc EXCEPT ![t] = "idle"]
    /\ ret' = [ret EXCEPT ![t] = r]

\* ------------------------------------------------------------ Sandbox::new
\* Uuid::new_v4 (lib.rs:46): an identifier not returned before
FreshUuids == Uuids \ used

\* the slot of the next Sandbox value (the values are numbered as they are made)
NextSandbox ==
    CHOOSE s \in Sandboxes : val[s] = "none" /\ \A r \in 1..(s - 1) : val[r] # "none"

\* `mkdir -p dir`
Mkdir(f, dir) == [f EXCEPT ![dir] = Dir]

\* `cargo new sandbox` run in dir: the project it writes
Scaffold(f, dir) ==
    LET root == PushSandbox(dir)
    IN  [f EXCEPT ![root] = Dir,
                  ![Manifest(root)] = ManifestFile({}),
                  ![SrcDir(root)] = Dir,
                  ![MainRs(root)] = TextFile(Placeholder)]

\* `cargo new sandbox` exits with a failure when the destination exists
CargoNewOutcomes(f, cwd) ==
    IF IsDir(f, cwd) /\ Exists(f, PushSandbox(cwd))
    THEN SpawnOutcomes(f, cwd) \ {Ok}
    ELSE SpawnOutcomes(f, cwd)

\* lib.rs:43-49  the path is built and `mkdir -p` is run; only a failure to
\* spawn it is an error (`.output()?`), its exit status is not looked at
NewMkdir(t, S) ==
    /\ pc[t] = "idle"
    /\ \E s \in S : val[s] = "none"
    /\ \E u \in FreshUuids, o \in {Ok, ExitFail} \cup {SpawnErr(k) : k \in IoKinds} :
         LET s == NextSandbox
             dir == UuidDir(u)
         IN  /\ used' = used \cup {u}
             /\ root_dir' = [root_dir EXCEPT ![s] = dir]
             /\ fs' = IF o.res = "ok" THEN Mkdir(fs, dir) ELSE fs
             /\ trace' = [trace EXCEPT ![t] = <<Call("mkdir", "", dir, o)>>]
             /\ sb' = [sb EXCEPT ![t] = s]
             /\ i' = [i EXCEPT ![t] = 0]
             /\ output' = [output EXCEPT ![t] = NoVal]
             /\ IF o.res = "spawn_err"
                THEN /\ val' = [val EXCEPT ![s] = "failed"]
                     /\ Return(t, RetErr("new", o.kind, "mkdir"))
                ELSE /\ val' = [val EXCEPT ![s] = "constructing"]
                     /\ pc' = [pc EXCEPT ![t] = "new_cargo"]
                     /\ ret' = [ret EXCEPT ![t] = NoRet]
    /\ deps' = [deps EXCEPT ![t] = <<>>]
    /\ expr' = [expr EXCEPT ![t] = NoExpr]
    /\ ty' = [ty EXCEPT ![t] = "none"]
    /\ UNCHANGED lock

\* lib.rs:50-58  `cargo new sandbox` is run in the directory, "sandbox" is
\* pushed on the path and the Sandbox is returned with a new Mutex
NewCargo(t) ==
    /\ pc[t] = "new_cargo"
    /\ LET s == sb[t]
           cwd == root_dir[s]
       IN  \E o \in CargoNewOutcomes(fs, cwd) :
             /\ fs' = IF o.res = "ok" THEN Scaffold(fs, cwd) ELSE fs
             /\ trace' = [trace EXCEPT ![t] = Append(@, Call("cargo new", "", cwd, o))]
             /\ IF o.res = "spawn_err"
                THEN /\ val' = [val EXCEPT ![s] = "failed"]
                     /\ Return(t, RetErr("new", o.kind, "cargo new"))
                     /\ UNCHANGED <<root_dir, lock>>
                ELSE /\ root_dir' = [root_dir EXCEPT ![s] = PushSandbox(cwd)]
                     /\ lock' = [lock EXCEPT ![s] = 0]
                     /\ val' = [val EXCEPT ![s] = "live"]
                     /\ Return(t, RetOk("new", NoVal))
    /\ UNCHANGED <<used, sb, deps, i, expr, ty, output>>

\* A caller lets go of a Sandbox it holds; the struct has no Drop, so the
\* workspace stays on disk (lib.rs:34-37).
DropSandbox(s) ==
    /\ val[s] = "live"
    /\ val' = [val EXCEPT ![s] = "dropped"]
    /\ UNCHANGED <<fs, used, root_dir, lock, pc, sb, deps, i, expr, ty, output, trace, ret>>

\* ----------------------------------------------------------- Sandbox::deps
\* as Owned, had deps and eval taken &self: a call can start during another
OwnedShared(s) == val[s] \in {"live", "moved"}

\* as Owned, had eval borrowed the Sandbox: it is usable again after a call
OwnedAfterUse(s) == val[s] \in {"live", "dropped"}

\* as Owned, had a Sandbox been usable before new has returned it
OwnedBeforeNew(s) == val[s] \in {"live", "constructing"}

\* deps and eval take self by value: the caller must hold the Sandbox, and
\* gives it up for the duration of the call (lib.rs:64, lib.rs:79)
Owned(s) == val[s] = "live"

\* as CargoAdd, had the manifest been rewritten with the one dependency
CargoAddOnly(f, root, dep) ==
    [f EXCEPT ![Manifest(root)] = ManifestFile({dep})]

\* `cargo add dep` writes the dependency into Cargo.toml
CargoAdd(f, root, dep) ==
    [f EXCEPT ![Manifest(root)] = ManifestFile(f[Manifest(root)].deps \cup {dep})]

\* `cargo add` exits with a failure when there is no manifest to edit
CargoAddOutcomes(f, cwd) ==
    IF IsDir(f, cwd) /\ ~IsFile(f, Manifest(cwd))
    THEN SpawnOutcomes(f, cwd) \ {Ok}
    ELSE SpawnOutcomes(f, cwd)

\* lib.rs:64-65  the call: self is moved into deps
DepsCall(t, L) ==
    /\ pc[t] = "idle"
    /\ \E s \in Sandboxes, ds \in L :
         /\ Owned(s)
         /\ val' = [val EXCEPT ![s] = "moved"]
         /\ deps' = [deps EXCEPT ![t] = ds]
         /\ Enter(t, s, "deps_lock")
    /\ trace' = [trace EXCEPT ![t] = <<>>]
    /\ expr' = [expr EXCEPT ![t] = NoExpr]
    /\ ty' = [ty EXCEPT ![t] = "none"]
    /\ UNCHANGED <<fs, used, root_dir, lock>>

\* lib.rs:66  lock.lock().unwrap(): blocks until the Mutex is free
DepsLock(t) ==
    /\ pc[t] = "deps_lock"
    /\ lock[sb[t]] = 0
    /\ lock' = [lock EXCEPT ![sb[t]] = t]
    /\ pc' = [pc EXCEPT ![t] = "deps_unlock"]
    /\ UNCHANGED <<fs, used, val, root_dir, sb, deps, i, expr, ty, output, trace, ret>>

\* as DepsGuardDrop, had the MutexGuard been leaked and the Mutex left locked
DepsGuardLeak(t) ==
    /\ pc[t] = "deps_unlock"
    /\ pc' = [pc EXCEPT ![t] = "deps_add"]
    /\ i' = [i EXCEPT ![t] = 1]
    /\ UNCHANGED <<fs, used, val, root_dir, lock, sb, deps, expr, ty, output, trace, ret>>

\* lib.rs:66  `let _ = ...` binds nothing: the MutexGuard is a temporary,
\* dropped at the end of the statement, which unlocks the Mutex
DepsGuardDrop(t) ==
    /\ pc[t] = "deps_unlock"
    /\ lock' = [lock EXCEPT ![sb[t]] = 0]
    /\ pc' = [pc EXCEPT ![t] = "deps_add"]
    /\ i' = [i EXCEPT ![t] = 1]
    /\ UNCHANGED <<fs, used, val, root_dir, sb, deps, expr, ty, output, trace, ret>>

\* lib.rs:67-72  one turn of the loop: `cargo add dep` in root_dir; only a
\* failure to spawn it ends the call (`.output()?`), and then self is dropped
DepsAdd(t) ==
    /\ pc[t] = "deps_add"
    /\ i[t] <= Len(deps[t])
    /\ LET s == sb[t]
           cwd == root_dir[s]
           dep == deps[t][i[t]]
       IN  \E o \in CargoAddOutcomes(fs, cwd) :
             /\ fs' = IF o.res = "ok" THEN CargoAdd(fs, cwd, dep) ELSE fs
             /\ trace' = [trace EXCEPT ![t] = Append(@, Call("cargo add", dep, cwd, o))]
             /\ IF o.res = "spawn_err"
                THEN /\ val' = [val EXCEPT ![s] = "dropped"]
                     /\ Return(t, RetErr("deps", o.kind, "cargo add"))
                     /\ UNCHANGED i
                ELSE /\ i' = [i EXCEPT ![t] = @ + 1]
                     /\ UNCHANGED <<val, pc, ret>>
    /\ UNCHANGED <<used, root_dir, lock, sb, deps, expr, ty, output>>

\* lib.rs:73  Ok(self): the caller holds the Sandbox again
DepsReturn(t) ==
    /\ pc[t] = "deps_add"
    /\ i[t] > Len(deps[t])
    /\ val' = [val EXCEPT ![sb[t]] = "live"]
    /\ Return(t, RetOk("deps", NoVal))
    /\ UNCHANGED <<fs, used, root_dir, lock, sb, deps, i, expr, ty, output, trace>>

\* ----------------------------------------------------------- Sandbox::eval
\* fs::write(path, text): NotFound when the parent is no directory; a write
\* that fails leaves the file as it was, or created and empty
WriteOutcomes(f, parent, p, text) ==
    IF ~IsDir(f, parent)
    THEN {[res |-> "io_err", kind |-> "NotFound", node |-> f[p]]}
    ELSE {[res |-> "ok", kind |-> "none", node |-> TextFile(text)]}
         \cup {[res |-> "io_err", kind |-> k, node |-> n] :
                 k \in IoKinds \ {"NotFound"}, n \in {f[p], TextFile(<<>>)}}

\* lib.rs:84-89  the synthesized main, run where the output file is `old`:
\* File::create comes first, then the expression is evaluated, then write_all
WrapperMain(e, old) ==
    {[res |-> "create_fail", out |-> old]}
    \cup IF e.result = "panic"
         THEN {[res |-> "panic", out |-> TextFile(<<>>)]}
         ELSE {[res |-> "ok", out |-> TextFile(to_string(e.v))]}
              \cup {[res |-> "write_fail", out |-> TextFile(p)] :
                      p \in Prefixes(to_string(e.v))}

\* `cargo run` in root, once spawned: it builds the src/main.rs that is on disk
\* and runs it there; res "ok" is exit status 0, every other one a failure
CargoRun(f, root) ==
    LET old == f[OutputFile(root)]
        text == f[MainRs(root)].text
    IN  {[res |-> "build_fail", out |-> old]}
        \cup IF ~IsFile(f, Manifest(root)) \/ ~IsFile(f, MainRs(root)) THEN {}
             ELSE IF text = Placeholder THEN {[res |-> "ok", out |-> old]}
             ELSE IF IsWrapper(text) /\ ExprOf(text).result # "compile_error"
                  THEN WrapperMain(ExprOf(text), old)
                  ELSE {}

\* Command::new("cargo").arg("run").current_dir(root).output()
RunOutcomes(f, root) ==
    LET old == f[OutputFile(root)]
    IN  IF ~IsDir(f, root)
        THEN {[res |-> "spawn_err", kind |-> "NotFound", out |-> old]}
        ELSE {[res |-> "spawn_err", kind |-> k, out |-> old] : k \in IoKinds}
             \cup {[res |-> r.res, kind |-> "none", out |-> r.out] : r \in CargoRun(f, root)}

\* as RemoveFile, had the file been left in place
RemoveFileNoop(f, p) == f

\* fs::remove_file(p)
RemoveFile(f, p) == [f EXCEPT ![p] = Absent]

\* lib.rs:79-80  the call: self is moved into eval and taken apart
EvalCall(t, E, TT) ==
    /\ pc[t] = "idle"
    /\ \E s \in Sandboxes, e \in E, T \in TT :
         /\ Owned(s)
         /\ val' = [val EXCEPT ![s] = "moved"]
         /\ expr' = [expr EXCEPT ![t] = e]
         /\ ty' = [ty EXCEPT ![t] = T]
         /\ Enter(t, s, "eval_lock")
    /\ deps' = [deps EXCEPT ![t] = <<>>]
    /\ trace' = [trace EXCEPT ![t] = <<>>]
    /\ UNCHANGED <<fs, used, root_dir, lock>>

\* lib.rs:81  lock.lock().unwrap(): blocks until the Mutex is free
EvalLock(t) ==
    /\ pc[t] = "eval_lock"
    /\ lock[sb[t]] = 0
    /\ lock' = [lock EXCEPT ![sb[t]] = t]
    /\ pc' = [pc EXCEPT ![t] = "eval_unlock"]
    /\ UNCHANGED <<fs, used, val, root_dir, sb, deps, i, expr, ty, output, trace, ret>>

\* as EvalGuardDrop, had `cargo run` come before the write of src/main.rs
EvalGuardDropToRun(t) ==
    /\ pc[t] = "eval_unlock"
    /\ lock' = [lock EXCEPT ![sb[t]] = 0]
    /\ pc' = [pc EXCEPT ![t] = "eval_run"]
    /\ UNCHANGED <<fs, used, val, root_dir, sb, deps, i, expr, ty, output, trace, ret>>

\* lib.rs:81  `let _ = ...`: the MutexGuard is dropped at the end of the statement
EvalGuardDrop(t) ==
    /\ pc[t] = "eval_unlock"
    /\ lock' = [lock EXCEPT ![sb[t]] = 0]
    /\ pc' = [pc EXCEPT ![t] = "eval_write"]
    /\ UNCHANGED <<fs, used, val, root_dir, sb, deps, i, expr, ty, output, trace, ret>>

\* lib.rs:82-91  the wrapper is built and written over src/main.rs
EvalWrite(t) ==
    /\ pc[t] = "eval_write"
    /\ LET s == sb[t]
           root == root_dir[s]
       IN  \E o \in WriteOutcomes(fs, SrcDir(root), MainRs(root), Wrapper(expr[t])) :
             /\ fs' = [fs EXCEPT ![MainRs(root)] = o.node]
             /\ trace' = [trace EXCEPT ![t] = Append(@, Call("write", "", MainRs(root), o))]
             /\ IF o.res = "io_err"
                THEN /\ val' = [val EXCEPT ![s] = "dropped"]
                     /\ Return(t, RetErr("eval", o.kind, "write"))
                ELSE /\ pc' = [pc EXCEPT ![t] = "eval_run"]
                     /\ UNCHANGED <<val, ret>>
    /\ UNCHANGED <<used, root_dir, lock, sb, deps, i, expr, ty, output>>

\* lib.rs:92-95  `cargo run` in root_dir, waited for; only a failure to spawn
\* it is an error (`.output()?`), its exit status is not looked at
EvalRun(t) ==
    /\ pc[t] = "eval_run"
    /\ LET s == sb[t]
           root == root_dir[s]
       IN  \E o \in RunOutcomes(fs, root) :
             /\ fs' = [fs EXCEPT ![OutputFile(root)] = o.out]
             /\ trace' = [trace EXCEPT ![t] = Append(@, Call("cargo run", "", root, o))]
             /\ IF o.res = "spawn_err"
                THEN /\ val' = [val EXCEPT ![s] = "dropped"]
                     /\ Return(t, RetErr("eval", o.kind, "cargo run"))
                ELSE /\ pc' = [pc EXCEPT ![t] = "eval_read"]
                     /\ UNCHANGED <<val, ret>>
    /\ UNCHANGED <<used, root_dir, lock, sb, deps, i, expr, ty, output>>

\* as ReadOutcomes, had a missing file been read as an empty text
ReadOutcomesLenient(f, p) == FsOutcomes

\* fs::read_to_string(p): NotFound when there is no such file
ReadOutcomes(f, p) ==
    IF ~IsFile(f, p) THEN {IoErr("NotFound")} ELSE FsOutcomes

\* lib.rs:96-98  the output file is read and its text parsed as T; a text
\* that does not parse is the error io::ErrorKind::Other
EvalRead(t) ==
    /\ pc[t] = "eval_read"
    /\ LET s == sb[t]
           p == OutputFile(root_dir[s])
           parsed == Parse(ty[t], fs[p].text)
       IN  \E o \in ReadOutcomes(fs, p) :
             IF o.res = "io_err"
             THEN /\ trace' = [trace EXCEPT ![t] = Append(@, Call("read", "", p, o))]
                  /\ val' = [val EXCEPT ![s] = "dropped"]
                  /\ Return(t, RetErr("eval", o.kind, "read"))
                  /\ UNCHANGED output
             ELSE IF ~parsed.ok
             THEN /\ trace' = [trace EXCEPT ![t] =
                                 @ \o <<Call("read", "", p, o), Call("parse", "", <<>>, [res |-> "parse_err"])>>]
                  /\ val' = [val EXCEPT ![s] = "dropped"]
                  /\ Return(t, RetErr("eval", ParseErrorKind, "parse"))
                  /\ UNCHANGED output
             ELSE /\ trace' = [trace EXCEPT ![t] =
                                 @ \o <<Call("read", "", p, o), Call("parse", "", <<>>, Ok)>>]
                  /\ output' = [output EXCEPT ![t] = parsed.v]
                  /\ pc' = [pc EXCEPT ![t] = "eval_remove"]
                  /\ UNCHANGED <<val, ret>>
    /\ UNCHANGED <<fs, used, root_dir, lock, sb, deps, i, expr, ty>>

\* fs::remove_file(p): NotFound when there is no such file
RemoveOutcomes(f, p) ==
    IF ~IsFile(f, p) THEN {IoErr("NotFound")} ELSE FsOutcomes

\* lib.rs:99-100  the output file is removed and the value returned
EvalRemove(t) ==
    /\ pc[t] = "eval_remove"
    /\ LET s == sb[t]
           p == OutputFile(root_dir[s])
       IN  \E o \in RemoveOutcomes(fs, p) :
             /\ fs' = IF o.res = "ok" THEN RemoveFile(fs, p) ELSE fs
             /\ trace' = [trace EXCEPT ![t] = Append(@, Call("remove", "", p, o))]
             /\ val' = [val EXCEPT ![s] = "dropped"]
             /\ IF o.res = "io_err"
                THEN Return(t, RetErr("eval", o.kind, "remove"))
                ELSE Return(t, RetOk("eval", output[t]))
    /\ UNCHANGED <<used, root_dir, lock, sb, deps, i, expr, ty, output>>

\* ------------------------------------------------------------ the program
\* one step of thread t, which makes its Sandboxes in S and calls deps with a
\* list of L and eval with an expression of E and a type of TT
Step(t, S, L, E, TT) ==
    \/ NewMkdir(t, S) \/ NewCargo(t)
    \/ DepsCall(t, L) \/ DepsLock(t) \/ DepsGuardDrop(t) \/ DepsAdd(t) \/ DepsReturn(t)
    \/ EvalCall(t, E, TT) \/ EvalLock(t) \/ EvalGuardDrop(t)
    \/ EvalWrite(t) \/ EvalRun(t) \/ EvalRead(t) \/ EvalRemove(t)

\* Threads working at the same time on the Sandboxes they make and pass on.
Next ==
    \/ \E t \in Threads : Step(t, Sandboxes, SomeDepLists, SomeExprs, SomeTypes)
    \/ \E s \in Sandboxes : DropSandbox(s)

Spec == Init /\ [][Next]_vars

\* the steps of thread t inside an operation: a call that has started goes on
\* (the thread is scheduled, and mkdir and cargo end)
Running(t) ==
    \/ NewCargo(t)
    \/ DepsLock(t) \/ DepsGuardDrop(t) \/ DepsAdd(t) \/ DepsReturn(t)
    \/ EvalLock(t) \/ EvalGuardDrop(t)
    \/ EvalWrite(t) \/ EvalRun(t) \/ EvalRead(t) \/ EvalRemove(t)

\* Spec, with every thread scheduled and every subprocess ending.
SpecFair == Spec /\ \A t \in Threads : WF_vars(Running(t))

\* One thread with one Sandbox, over all the inputs.
NextSeq ==
    \/ Step(MainThread, {FirstSandbox}, DepLists, Exprs, Types)
    \/ DropSandbox(FirstSandbox)

SpecSeq == Init /\ [][NextSeq]_vars

\* ------------------------------------------------------------- the claims
\* thread t is inside deps or eval, past the acquisition of the lock
Working(t) ==
    pc[t] \in {"deps_unlock", "deps_add",
               "eval_unlock", "eval_write", "eval_run", "eval_read", "eval_remove"}

\* thread t is at a step of deps or eval that touches the workspace
Touching(t) ==
    pc[t] \in {"deps_add", "eval_write", "eval_run", "eval_read", "eval_remove"}

\* thread t has returned from a call of op and holds its result
Returned(t, op) == pc[t] = "idle" /\ ret[t].op = op

\* new has returned Sandbox s to a caller
Made(s) == val[s] \in {"live", "moved", "dropped"}

IsUnder(p, root) == Len(p) >= Len(root) /\ SubSeq(p, 1, Len(root)) = root

\* the outcomes of `cargo run` that are an abnormal end of the program
Abnormal == {"build_fail", "create_fail", "panic", "write_fail"}

\* the calls of thread t's operation that ended otherwise than well
Failures(t) == {k \in 1..Len(trace[t]) : trace[t][k].res # "ok"}

\* C1: at most one deps or eval operation is in flight on a Sandbox at a time.
C1_OneInFlight ==
    \A s \in Sandboxes : Cardinality({t \in Threads : Working(t) /\ sb[t] = s}) <= 1

\* two operations are in flight at once, each on its own Sandbox
C1_Witness ==
    \E t, u \in Threads : t # u /\ pc[t] = "eval_run" /\ pc[u] = "deps_add"

\* C2: while deps runs `cargo add`, or eval writes, runs, reads or removes,
\* the Mutex of the Sandbox is held by the thread of that operation.
C2_LockHeldThroughout ==
    \A t \in Threads : Touching(t) => lock[sb[t]] = t

\* C3: new returns Ok exactly when `mkdir -p` and `cargo new` both succeeded.
C3_NewFailsWhenAStepFails ==
    \A t \in Threads :
        Returned(t, "new") =>
            (ret[t].status = "Ok" <=> (Len(trace[t]) = 2 /\ Failures(t) = {}))

\* C4: deps returns an error at the first add that fails, attempts no later
\* name, and the names before it are in the manifest.
C4_DepsStopsAtFirstFailure ==
    \A t \in Threads :
        Returned(t, "deps") =>
            \A k \in Failures(t) :
                /\ ret[t].status = "Err"
                /\ Len(trace[t]) = k
                /\ \A j \in 1..(k - 1) :
                     deps[t][j] \in fs[Manifest(root_dir[sb[t]])].deps

\* C5: eval of an expression that does not compile or that panics returns an
\* error, whatever the type T.
C5_AbnormalIsAnError ==
    \A t \in Threads :
        (Returned(t, "eval") /\ expr[t].result \in {"compile_error", "panic"})
            => ret[t].status = "Err"

\* C6: when `cargo run` ended abnormally, the output file is missing afterwards
\* and eval fails with the read error of the missing file.
C6_AbnormalIsAMissingFile ==
    \A t \in Threads :
        (Returned(t, "eval")
         /\ \E k \in 1..Len(trace[t]) :
              trace[t][k].cmd = "cargo run" /\ trace[t][k].res \in Abnormal)
            => /\ ~Exists(fs, OutputFile(root_dir[sb[t]]))
               /\ ret[t].status = "Err"
               /\ ret[t].at = "read"
               /\ ret[t].kind = "NotFound"

\* C7: after an eval that returned Ok, the output file does not exist and
\* src/main.rs holds the wrapper of that evaluation.
C7_CleanAfterSuccess ==
    \A t \in Threads :
        (Returned(t, "eval") /\ ret[t].status = "Ok")
            => /\ ~Exists(fs, OutputFile(root_dir[sb[t]]))
               /\ fs[MainRs(root_dir[sb[t]])] = TextFile(Wrapper(expr[t]))

\* an eval has returned Ok with the value of its expression
C7_Witness ==
    \E t \in Threads :
        /\ Returned(t, "eval") /\ ret[t].status = "Ok"
        /\ expr[t].result = "value" /\ ret[t].v = expr[t].v

\* C8: after an eval that returned an error, the workspace holds no output file.
C8_NoOutputAfterFailure ==
    \A t \in Threads :
        (Returned(t, "eval") /\ ret[t].status = "Err")
            => ~Exists(fs, OutputFile(root_dir[sb[t]]))

\* C9: two Sandboxes that new has returned have different paths, neither inside
\* the other, and every path a deps or eval operation accesses lies under the
\* path of its own Sandbox and under that of no other.
C9_Isolation ==
    /\ \A s, r \in Sandboxes :
         (s # r /\ Made(s) /\ Made(r)) => ~IsUnder(root_dir[s], root_dir[r])
    /\ \A t \in Threads :
         ret[t].op \in {"deps", "eval"} \/ Working(t) =>
            \A k \in 1..Len(trace[t]) :
                trace[t][k].path # <<>> =>
                    /\ IsUnder(trace[t][k].path, root_dir[sb[t]])
                    /\ \A r \in Sandboxes :
                         (r # sb[t] /\ Made(r)) => ~IsUnder(trace[t][k].path, root_dir[r])

\* two threads have each accessed the workspace of their own Sandbox
C9_Witness ==
    \E t, u \in Threads :
        /\ t # u /\ sb[t] # sb[u]
        /\ pc[t] = "eval_remove" /\ pc[u] = "deps_add" /\ Len(trace[u]) >= 1

\* C10: the workspace of a Sandbox that new has returned and that was not
\* dropped holds a manifest and an entry point.
C10_LiveIsScaffolded ==
    \A s \in Sandboxes :
        val[s] \in {"live", "moved"} =>
            /\ IsFile(fs, Manifest(root_dir[s]))
            /\ IsFile(fs, MainRs(root_dir[s]))


\* the outcome of the `cargo run` of thread t's eval, "none" before it
RunRes(t) ==
    IF \E k \in 1..Len(trace[t]) : trace[t][k].cmd = "cargo run"
    THEN trace[t][CHOOSE k \in 1..Len(trace[t]) : trace[t][k].cmd = "cargo run"].res
    ELSE "none"

\* the calls of thread t's operation that failed as I/O (not by exit status)
IoFailures(t) == {k \in 1..Len(trace[t]) : trace[t][k].res \in {"io_err", "spawn_err"}}

\* the value of an expression has the type T
HasType(v, T) ==
    \/ T = "u32" /\ v.t = "int" /\ v.n >= 0
    \/ T = "String" /\ v.t = "str"

\* C11: when deps returns Ok, every name of the list is in the manifest and
\* the caller holds the same Sandbox again.
C11_OkDepsInstalledAll ==
    \A t \in Threads :
        (Returned(t, "deps") /\ ret[t].status = "Ok")
            => /\ \A k \in 1..Len(deps[t]) :
                    deps[t][k] \in fs[Manifest(root_dir[sb[t]])].deps
               /\ IsFile(fs, Manifest(root_dir[sb[t]]))

\* C12: when the synthesized program ran to completion and no read or remove
\* failed, eval returns what parsing as T the to_string of the value of the
\* expression gives: that value, or the parse error; for an expression of type
\* T it is the value of the expression (2 + 2 as u32 is 4).
C12_RoundTrip ==
    \A t \in Threads :
        (Returned(t, "eval") /\ RunRes(t) = "ok" /\ IoFailures(t) = {})
            => LET parsed == Parse(ty[t], to_string(expr[t].v))
               IN  /\ parsed.ok => (ret[t].status = "Ok" /\ ret[t].v = parsed.v)
                   /\ ~parsed.ok => (ret[t].status = "Err" /\ ret[t].at = "parse")
                   /\ HasType(expr[t].v, ty[t]) =>
                        (ret[t].status = "Ok" /\ ret[t].v = expr[t].v)

\* eval of `2 + 2` as u32 has returned 4
C12_Witness ==
    \E t \in Threads :
        /\ Returned(t, "eval") /\ expr[t].src = "2 + 2" /\ ty[t] = "u32"
        /\ RunRes(t) = "ok" /\ ret[t].status = "Ok" /\ ret[t].v = IntVal(4)

\* C13: the error of a text that does not parse has a kind that no I/O failure
\* of eval (write, spawn, read, remove) has.
C13_ParseKindDistinct ==
    \A t \in Threads :
        (Returned(t, "eval") /\ ret[t].status = "Err")
            => /\ ret[t].at = "parse" => (ret[t].kind = ParseErrorKind /\ ret[t].kind \notin IoKinds)
               /\ ret[t].at # "parse" => ret[t].kind # ParseErrorKind

\* an eval has failed on a text that does not parse, read from the output file
C13_Witness ==
    \E t \in Threads :
        /\ Returned(t, "eval") /\ ret[t].at = "parse"
        /\ IsFile(fs, OutputFile(root_dir[sb[t]]))
        /\ ~Parse(ty[t], fs[OutputFile(root_dir[sb[t]])].text).ok


\* thread t is inside a deps (resp. an eval) on Sandbox s
InDeps(t, s) == pc[t] \in {"deps_lock", "deps_unlock", "deps_add"} /\ sb[t] = s
InEval(t, s) ==
    /\ pc[t] \in {"eval_lock", "eval_unlock", "eval_write", "eval_run", "eval_read", "eval_remove"}
    /\ sb[t] = s

\* C14: on every Sandbox the order is new, then deps calls, then at most one
\* eval: a deps or an eval starts only on a Sandbox that new has returned and
\* that the caller holds; once an eval has started on it, or a deps on it has
\* failed, the caller never holds it again, so no deps or eval starts on it.
C14_NewThenDepsThenOneEval ==
    [][\A s \in Sandboxes :
         /\ \A t \in Threads :
              /\ (~InDeps(t, s) /\ InDeps(t, s)') => (val[s] = "live" /\ val'[s] = "moved")
              /\ (~InEval(t, s) /\ InEval(t, s)') => (val[s] = "live" /\ val'[s] = "moved")
              /\ InEval(t, s) => val'[s] \in {"moved", "dropped"}
              /\ (InDeps(t, s) /\ ret'[t].status = "Err") => val'[s] = "dropped"
         /\ val[s] \in {"dropped", "failed"} => val'[s] = val[s]
         /\ val'[s] = "live" =>
              \/ val[s] = "live"
              \/ val[s] = "constructing"
              \/ \E t \in Threads : InDeps(t, s) /\ ret'[t] = RetOk("deps", NoVal)
      ]_vars

\* an eval runs on a Sandbox after a deps that installed a dependency in it
C14_Witness ==
    \E t \in Threads :
        /\ pc[t] = "eval_run" /\ val[sb[t]] = "moved"
        /\ "A" \in fs[Manifest(root_dir[sb[t]])].deps

\* C15: no step of new, deps or eval removes a dependency from a manifest.
C15_ManifestGrows ==
    [][\A p \in AllPaths : fs[p].deps \subseteq fs'[p].deps]_vars

\* two deps steps have added one dependency each to the manifest
C15_Witness ==
    \E s \in Sandboxes :
        /\ Made(s) /\ IsFile(fs, Manifest(root_dir[s]))
        /\ Cardinality(fs[Manifest(root_dir[s])].deps) >= 2


\* lib.rs:91-99  the calls of eval, in the order of the code
EvalOrder == <<"write", "cargo run", "read", "parse", "remove">>

\* thread t is inside an eval, or has returned from one
OfEval(t) == (\E s \in Sandboxes : InEval(t, s)) \/ Returned(t, "eval")

\* the calls thread t's eval has made are the first ones of EvalOrder, in order
InEvalOrder(t) ==
    /\ Len(trace[t]) <= Len(EvalOrder)
    /\ \A k \in 1..Len(trace[t]) : trace[t][k].cmd = EvalOrder[k]

\* the number of calls that are complete when thread t is at a step of eval
DoneAt(t) ==
    CASE pc[t] \in {"eval_lock", "eval_unlock", "eval_write"} -> {0}
      [] pc[t] = "eval_run" -> {1}
      [] pc[t] = "eval_read" -> {2}
      [] pc[t] = "eval_remove" -> {4}
      [] OTHER -> 1..Len(EvalOrder)

\* the calls of thread t's operation that ended with an Err
Errors(t) ==
    {k \in 1..Len(trace[t]) : trace[t][k].res \in {"io_err", "spawn_err", "parse_err"}}

\* C16 (as stated): the steps of eval come in the order lock, write, cargo run,
\* read, parse, remove, each after the one before is complete, and a step that
\* fails, an exit of `cargo run` with a failure status included, is the last.
C16_FailingStepIsLast ==
    \A t \in Threads :
        OfEval(t) =>
            /\ InEvalOrder(t)
            /\ Len(trace[t]) \in DoneAt(t)
            /\ \A k \in Failures(t) : k = Len(trace[t]) /\ Returned(t, "eval")

\* C16 (amended): the steps of eval come in the order lock, write, cargo run,
\* read, parse, remove, each after the one before is complete, and a step
\* that ends with an error (a failed write, spawn, read, parse or remove) is
\* the last and eval returns that error; an exit of `cargo run` with a
\* failure status is no error, and the read follows it.
C16_ErrorStepIsLast ==
    \A t \in Threads :
        OfEval(t) =>
            /\ InEvalOrder(t)
            /\ Len(trace[t]) \in DoneAt(t)
            /\ \A k \in Errors(t) :
                 k = Len(trace[t]) /\ Returned(t, "eval") /\ ret[t].status = "Err"
            /\ (Returned(t, "eval") /\ ret[t].status = "Err") => Errors(t) # {}
            /\ \A k \in 1..Len(trace[t]) :
                 (trace[t][k].cmd = "cargo run" /\ trace[t][k].res \in Abnormal)
                     => (Len(trace[t]) > k \/ pc[t] = "eval_read")

\* the build has failed, the read was made all the same and eval ended there
C16_Witness ==
    \E t \in Threads :
        /\ Returned(t, "eval") /\ Len(trace[t]) = 3
        /\ trace[t][2].res = "build_fail" /\ trace[t][3].res = "io_err"
        /\ ret[t].at = "read"


\* C17: the Mutex of a Sandbox is held only by a thread inside a deps or an
\* eval on it, never after the operation has ended, however it ended; and a
\* thread waiting for the Mutex gets it and goes on to the body of its
\* operation (threads are scheduled fairly, subprocesses end).
C17_LockReleasedAndAcquired ==
    /\ [](\A s \in Sandboxes :
            lock[s] # 0 => (InDeps(lock[s], s) \/ InEval(lock[s], s)))
    /\ [](\A t \in Threads :
            (Returned(t, "deps") \/ Returned(t, "eval")) => lock[sb[t]] # t)
    /\ \A t \in Threads : (pc[t] = "deps_lock") ~> (pc[t] = "deps_add")
    /\ \A t \in Threads : (pc[t] = "eval_lock") ~> (pc[t] = "eval_write")

\* a deps has ended early with an error and the Mutex of its Sandbox is free
C17_Witness ==
    \E t \in Threads :
        /\ Returned(t, "deps") /\ ret[t].status = "Err"
        /\ Len(trace[t]) >= 1 /\ lock[sb[t]] = 0


\* the step is one of thread t
Acting(t) == pc'[t] # pc[t] \/ trace'[t] # trace[t] \/ i'[t] # i[t]

\* the step changes no path but those of the set P
OnlyChanges(P) == \A p \in AllPaths \ P : fs'[p] = fs[p]

\* C18: a step of deps changes no file but the manifest of its Sandbox (the
\* source file and the output file stay as they are); a step of eval changes
\* no file but the source file and the output file of its Sandbox (the
\* manifest stays as it is); neither changes the root_dir of a Sandbox.
C18_Frame ==
    [][\A t \in Threads, s \in Sandboxes :
         /\ (InDeps(t, s) /\ Acting(t)) =>
              /\ OnlyChanges({Manifest(root_dir[s])})
              /\ root_dir'[s] = root_dir[s]
         /\ (InEval(t, s) /\ Acting(t)) =>
              /\ OnlyChanges({MainRs(root_dir[s]), OutputFile(root_dir[s])})
              /\ fs'[Manifest(root_dir[s])] = fs[Manifest(root_dir[s])]
              /\ root_dir'[s] = root_dir[s]
         /\ Made(s) => root_dir'[s] = root_dir[s]
      ]_vars

\* a deps has changed the manifest and an eval after it the source file, and
\* each has left the other's file as it was
C18_Witness ==
    \E t \in Threads :
        /\ Returned(t, "eval") /\ ret[t].status = "Ok"
        /\ fs[Manifest(root_dir[sb[t]])] = ManifestFile({"A", "B"})
        /\ fs[MainRs(root_dir[sb[t]])] = TextFile(Wrapper(expr[t]))


\* C19: once `cargo run` was spawned, eval goes on to the read whatever the
\* exit status; from there it goes on to the removal exactly when the output
\* file exists, is read and its text parses as T, with the parsed value, and
\* returns an error otherwise; and it returns Ok, with that value, exactly
\* when the removal has deleted the file. The exit status plays no part.
C19_OutcomeFromOutputFile ==
    [][\A t \in Threads :
         LET p == OutputFile(root_dir[sb[t]])
         IN  /\ (pc[t] = "eval_run" /\ Acting(t)) =>
                  IF trace'[t][Len(trace'[t])].res = "spawn_err"
                  THEN Returned(t, "eval")' /\ ret'[t].status = "Err"
                  ELSE pc'[t] = "eval_read"
             /\ (pc[t] = "eval_read" /\ Acting(t)) =>
                  /\ pc'[t] = "eval_remove" =>
                       /\ IsFile(fs, p) /\ Parse(ty[t], fs[p].text).ok
                       /\ output'[t] = Parse(ty[t], fs[p].text).v
                  /\ pc'[t] # "eval_remove" =>
                       /\ Returned(t, "eval")' /\ ret'[t].status = "Err"
                       /\ \/ ~IsFile(fs, p)
                          \/ ~Parse(ty[t], fs[p].text).ok
                          \/ trace'[t][Len(trace'[t])].res = "io_err"
                  /\ (~IsFile(fs, p) \/ ~Parse(ty[t], fs[p].text).ok) => pc'[t] # "eval_remove"
             /\ (pc[t] = "eval_remove" /\ Acting(t)) =>
                  /\ Returned(t, "eval")'
                  /\ ret'[t].status = "Ok" <=> (IsFile(fs, p) /\ ~Exists(fs', p))
                  /\ ret'[t].status = "Ok" => ret'[t].v = output[t]
      ]_vars

\* the program has ended abnormally and eval has returned Ok all the same
C19_Witness ==
    \E t \in Threads :
        /\ Returned(t, "eval") /\ ret[t].status = "Ok"
        /\ RunRes(t) \in Abnormal


\* the texts the program of thread t's eval can leave in the output file
WrittenBy(t) ==
    IF expr[t].result = "value"
    THEN {to_string(expr[t].v)} \cup Prefixes(to_string(expr[t].v))
    ELSE {<<>>}

\* C20: no eval reads an output file of an earlier evaluation: when an eval
\* starts, and until its `cargo run`, its Sandbox has no output file (evals
\* that failed have left theirs in other Sandboxes); a value it returns is
\* parsed from a text its own program run has written.
C20_NoStaleOutput ==
    \A t \in Threads :
        /\ pc[t] \in {"eval_lock", "eval_unlock", "eval_write", "eval_run"}
             => ~Exists(fs, OutputFile(root_dir[sb[t]]))
        /\ (Returned(t, "eval") /\ ret[t].status = "Ok")
             => /\ RunRes(t) \in {"ok", "panic", "write_fail"}
                /\ \E text \in WrittenBy(t) :
                     Parse(ty[t], text).ok /\ ret[t].v = Parse(ty[t], text).v

\* an eval has failed and left its output file behind, and another eval, in
\* a Sandbox of its own, has returned the value of its own expression
C20_Witness ==
    \E t, u \in Threads :
        /\ t # u
        /\ Returned(t, "eval") /\ ret[t].status = "Err"
        /\ IsFile(fs, OutputFile(root_dir[sb[t]]))
        /\ Returned(u, "eval") /\ ret[u].status = "Ok" /\ expr[u].src = "2 + 2"

====
